---- MODULE Spec2Model ----
(***************************************************************************)
(* Token lifecycle of the Viessmann API client: ViessmannClient            *)
(* (src/src/client.ts), the OAuth callback listener (src/src/oauth.ts)     *)
(* and TokenStorage (src/explore.ts, the storage module).                  *)
(*                                                                         *)
(* Nullable values are sequences of length 0 (null) or 1.  Instants are    *)
(* counted in seconds: Date.now() is 1000 times the model's now, every     *)
(* millisecond amount of the code is divided by 1000 (Ms), which keeps     *)
(* all comparisons of the code and keeps the constructor's 365-day expiry  *)
(* within TLC's 32-bit integers.  Every await of the code is a step: a     *)
(* promise-returning call is started in one step and its continuation      *)
(* runs in a later one.                                                    *)
(***************************************************************************)
EXTENDS Integers, Sequences, FiniteSets, TLC

\* ------------------------------------------------------------------ bounds
MaxTicks == 2          \* clock steps the environment takes on its own
MaxTokens == 2         \* tokens the provider issues
MaxListeners == 1      \* interactive attempts (callback servers) per run
MaxRetries == 1        \* further attempts after the application was told of a failure
TickSeconds == 300     \* granularity of the clock

\* --------------------------------------------------------------- constants
\* A duration the code gives in milliseconds.
Ms(ms) == ms \div 1000

ExpiryMargin == Ms(5 * 60 * 1000)        \* client.ts:230
StoreMargin == Ms(5 * 60 * 1000)         \* storage: isTokenExpired
CallbackTimeout == Ms(5 * 60 * 1000)     \* oauth.ts:157
PresetLifetime == 365 * 24 * 60 * 60     \* client.ts:39, 365 * 24 * 60 * 60 * 1000 ms
PresetExpiresIn == 3600                \* client.ts:35
CallbackPort == 4200                   \* client.ts:93

Null == <<>>
Some(x) == <<x>>
IsNull(x) == x = <<>>
Val(x) == x[1]

Procs == {"main", "other"}

\* Lifetimes (seconds) the provider hands out, and those of a record left
\* in the token file by an earlier run.
ExpiresInValues == {300, 900}

Codes == {"CODE1", "CODE2"}

\* ------------------------------------------------------------------ tokens
\* AuthToken (types.ts): the token endpoint's response body.
AuthToken(at, rt, e) ==
  [access_token |-> at, refresh_token |-> rt, expires_in |-> e, token_type |-> "Bearer"]

\* The empty refresh token ''.
NoRefreshToken == <<>>

\* The n-th token the provider issues; rt says whether it carries a
\* refresh token ('' otherwise).
Issued(n, rt, e) ==
  AuthToken(<<"AT", "issued", n>>, IF rt THEN <<"RT", "issued", n>> ELSE NoRefreshToken, e)

\* The four AuthToken fields of a token object, whatever else it carries.
AuthFields(t) ==
  [access_token |-> t.access_token, refresh_token |-> t.refresh_token,
   expires_in |-> t.expires_in, token_type |-> t.token_type]

\* TokenStorage.saveToken: { ...token, created_at: Date.now() }.  The spread
\* comes first, so a created_at the token already carries is overwritten.
SaveRecord(t, time) ==
  [access_token |-> t.access_token, refresh_token |-> t.refresh_token,
   expires_in |-> t.expires_in, token_type |-> t.token_type, created_at |-> time]

\* TokenStorage.isTokenExpired(token), evaluated at instant time.
\* Mutant of StoreIsTokenExpired: strict comparison at the margin.
StoreIsTokenExpired_Strict(t, time) ==
  LET expiresAt == t.created_at + Ms(t.expires_in * 1000)
  IN  time > (expiresAt - StoreMargin)

\* Mutant of StoreIsTokenExpired: no safety margin.
StoreIsTokenExpired_NoMargin(t, time) ==
  LET expiresAt == t.created_at + Ms(t.expires_in * 1000)
  IN  time >= expiresAt

StoreIsTokenExpired(t, time) ==
  LET expiresAt == t.created_at + Ms(t.expires_in * 1000)
  IN  time >= (expiresAt - StoreMargin)

\* Mutant of ClientIsTokenExpired: the 5-minute margin is left out.
ClientIsTokenExpired_NoMargin(expiry, time) ==
  IF IsNull(expiry) THEN TRUE ELSE time >= Val(expiry)

\* ViessmannClient.isTokenExpired(), evaluated at instant time.
ClientIsTokenExpired(expiry, time) ==
  IF IsNull(expiry) THEN TRUE ELSE time >= Val(expiry) - ExpiryMargin

\* `Bearer ${access_token}`
Bearer(at) == <<"Bearer", at>>

\* Mutant of UpdateAuthHeader: the header is left as it was.
UpdateAuthHeader_Skipped(tok, header) == header

\* updateAuthHeader: sets the header only when a token is held.
UpdateAuthHeader(tok, header) ==
  IF IsNull(tok) THEN header ELSE Bearer(Val(tok).access_token)

\* JS truthiness of token?.refresh_token
HasRefreshToken(tok) == ~IsNull(tok) /\ Val(tok).refresh_token # NoRefreshToken

\* Promise settlement: only the first resolve/reject takes effect.
Settle(outcome, new) == IF IsNull(outcome) THEN Some(new) ELSE outcome

\* --------------------------------------------------------------- variables
VARIABLES
  now,          \* Date.now()
  config,       \* ViessmannConfig: which optional fields are set
  token,        \* this.token
  tokenExpiry,  \* this.tokenExpiry (ms), or null
  authHeader,   \* axiosInstance.defaults.headers.common['Authorization']
  store,        \* content of the token file, or null when there is no file
  issued,       \* number of tokens the provider has issued
  call,         \* per caller: the public method it runs and where it is suspended
  overlapping,  \* whether the application issues API calls concurrently
  retired,      \* history: access tokens a successful refresh has replaced
  attempts      \* callback servers started so far, with their PKCE/state

vars == <<now, config, token, tokenExpiry, authHeader, store, issued, call, overlapping, retired, attempts>>

\* A caller's frame:
\*   op           the public method it is running (kept after it finishes)
\*   pc           the await it is suspended at, or "idle"
\*   result       outcome of its last finished call: "ok" or the error thrown
\*   storedToken  authenticateWithBrowser's local storedToken
\*   pendingWrite record handed to writeFile by saveToken, not yet written
\*   inflight     token-endpoint request awaiting its response
\*   apiAuth      Authorization header of the API request it has sent
\*   attempt      index of the callback server it started, or 0
\*   arg          token passed to its last direct saveToken call
\*   loaded       value its last direct loadToken call returned
\*   replaced     history: file content its writeFile truncated
\*   refreshed    history: response its refreshToken() adopted
IdleCall ==
  [op |-> "none", pc |-> "idle", result |-> "none", storedToken |-> Null,
   pendingWrite |-> Null, inflight |-> Null, apiAuth |-> Null, attempt |-> 0,
   arg |-> Null, loaded |-> Null, replaced |-> Null, refreshed |-> Null]

\* ------------------------------------------------------------ initial state
\* new ViessmannClient(config): which optional fields are set.  userpass
\* stands for username and password together.
Config(secret, userpass, accessToken, refreshToken) ==
  [clientSecret |-> secret, userpass |-> userpass, accessToken |-> accessToken,
   refreshToken |-> refreshToken]

\* The configurations of the repository's scripts and README: clientId alone,
\* with a secret, with secret and credentials, and a pre-supplied access
\* token (alone, or with credentials, or with a refresh token as well).
Configs ==
  {Config(FALSE, FALSE, FALSE, FALSE), Config(TRUE, FALSE, FALSE, FALSE),
   Config(TRUE, TRUE, FALSE, FALSE), Config(FALSE, FALSE, TRUE, FALSE),
   Config(TRUE, TRUE, TRUE, FALSE), Config(TRUE, FALSE, TRUE, TRUE)}

\* A record saved by an earlier run at instant 0.
FileRecord(rt, e) ==
  SaveRecord(AuthToken(<<"AT", "file", 0>>,
                       IF rt THEN <<"RT", "file", 0>> ELSE NoRefreshToken, e), 0)

\* Token files an earlier run can have left: none, a record that is still
\* valid, and records that are soon-expired already (300 s lifetime).
InitialStores ==
  {Null, Some(FileRecord(TRUE, 900)), Some(FileRecord(TRUE, 300)), Some(FileRecord(FALSE, 300))}

\* The token the constructor builds from config.accessToken.
PresetToken(cfg) ==
  AuthToken(<<"AT", "config", 0>>,
            IF cfg.refreshToken THEN <<"RT", "config", 0>> ELSE NoRefreshToken,
            PresetExpiresIn)

Init ==
  /\ now = 0
  /\ config \in Configs
  /\ store \in InitialStores
  /\ token = IF config.accessToken THEN Some(PresetToken(config)) ELSE Null
  /\ tokenExpiry = IF config.accessToken THEN Some(now + PresetLifetime) ELSE Null
  /\ authHeader = UpdateAuthHeader(token, Null)
  /\ issued = 0
  /\ call = [p \in Procs |-> IdleCall]
  /\ overlapping = FALSE
  /\ retired = {}
  /\ attempts = <<>>

\* ------------------------------------------------------------ error values
ErrNoRefreshToken == "No refresh token available"
ErrNoClientSecret == "Client secret is required for token refresh"

\* What axios.post throws when the token request fails: an AxiosError, with
\* the provider's response (status, data) when one was received.
HttpRejection(status, error) ==
  [name |-> "AxiosError", message |-> "Request failed with status code " \o status,
   response |-> Some([status |-> status, data |-> [error |-> error]])]

NetworkFailure == [name |-> "AxiosError", message |-> "Network Error", response |-> Null]

HttpRejections ==
  {HttpRejection("400", "invalid_grant"), HttpRejection("400", "invalid_request"),
   HttpRejection("401", "invalid_client")}

Rejections == HttpRejections \cup {NetworkFailure}

\* `${error}`: Error.prototype.toString
ErrorText(error) == error.name \o ": " \o error.message

\* JSON.stringify of the provider's error body
Stringify(data) == "{\"error\":\"" \o data.error \o "\"}"

\* `${error.response.status} - ${JSON.stringify(error.response.data)}`
StatusAndBody(error) ==
  Val(error.response).status \o " - " \o Stringify(Val(error.response).data)

\* client.ts 221
ErrRefreshFailed(error) == "Token refresh failed: " \o ErrorText(error)

\* client.ts 138-141
ErrExchangeFailed(error) ==
  "Token exchange failed: " \o
    (IF IsNull(error.response) THEN ErrorText(error) ELSE StatusAndBody(error))

\* client.ts 176-179
ErrAuthFailed(error) ==
  "Authentication failed: " \o
    (IF IsNull(error.response) THEN ErrorText(error) ELSE StatusAndBody(error))
ErrMissingCredentials == "Username, password, and client secret are required for authentication"
\* oauth.ts 98: the message holds the error code only.
ErrOAuth(error) == "OAuth error: " \o error
ErrStateMismatch == "State mismatch"
ErrNoCode == "No code received"
ErrTimeout == "Authentication timeout"

\* --------------------------------------------------------- callback server
\* generatePKCE / generateState: fresh random values, one per attempt n.
Verifier(n) == <<"verifier", n>>
Challenge(v) == <<"S256", v>>
StateOf(n) == <<"state", n>>

\* startCallbackServer(port, expectedState), just after listen() and
\* setTimeout(), together with the browser-launch task started beside it.
NewAttempt(n, time) ==
  [expectedState |-> StateOf(n),
   codeVerifier |-> Verifier(n),
   codeChallenge |-> Challenge(Verifier(n)),
   port |-> CallbackPort,
   server |-> "listening",
   outcome |-> Null,
   timer |-> "pending",
   due |-> time + CallbackTimeout,
   browser |-> "pending"]

\* The provider's error codes and descriptions seen in callbacks.
OAuthErrors == {"access_denied", "server_error"}
Descriptions == {"user cancelled", "consent expired"}

\* Callback requests: path and the query parameters code, state, error and
\* error_description (read only beside an error).  StateOf(0) is a state no
\* attempt generated.  One request for another path.
Requests ==
  [path : {"/"},
   code : {Null} \cup {Some(c) : c \in Codes},
   state : {Null} \cup {Some(StateOf(n)) : n \in 0..(MaxListeners + MaxRetries)},
   error : {Null}, error_description : {Null}]
  \cup
  [path : {"/"},
   code : {Null, Some("CODE1")},
   state : {Null} \cup {Some(StateOf(n)) : n \in 0..(MaxListeners + MaxRetries)},
   error : {Some(e) : e \in OAuthErrors},
   error_description : {Null} \cup {Some(d) : d \in Descriptions}]
  \cup {[path |-> "/favicon.ico", code |-> Null, state |-> Null, error |-> Null,
         error_description |-> Null]}

\* Mutant of HandleRequest: the code is accepted before the state is checked.
HandleRequest_CodeBeforeState(a, req) ==
  IF req.path # "/" THEN a
  ELSE IF ~IsNull(req.error)
    THEN [a EXCEPT !.server = "closed", !.outcome = Settle(@, <<"reject", ErrOAuth(Val(req.error))>>)]
  ELSE IF ~IsNull(req.code)
    THEN [a EXCEPT !.server = "closed", !.outcome = Settle(@, <<"resolve", Val(req.code)>>)]
  ELSE IF req.state # Some(a.expectedState)
    THEN [a EXCEPT !.server = "closed", !.outcome = Settle(@, <<"reject", "State mismatch">>)]
  ELSE [a EXCEPT !.server = "closed", !.outcome = Settle(@, <<"reject", "No code received">>)]

\* Mutant of HandleRequest: the success path does not close the server.
HandleRequest_NoCloseOnCode(a, req) ==
  IF req.path # "/" THEN a
  ELSE IF ~IsNull(req.error)
    THEN [a EXCEPT !.server = "closed", !.outcome = Settle(@, <<"reject", ErrOAuth(Val(req.error))>>)]
  ELSE IF req.state # Some(a.expectedState)
    THEN [a EXCEPT !.server = "closed", !.outcome = Settle(@, <<"reject", "State mismatch">>)]
  ELSE IF ~IsNull(req.code)
    THEN [a EXCEPT !.outcome = Settle(@, <<"resolve", Val(req.code)>>)]
  ELSE [a EXCEPT !.server = "closed", !.outcome = Settle(@, <<"reject", "No code received">>)]

\* Mutant of HandleRequest: a missing code is reported as a state mismatch.
HandleRequest_NoCodeAsMismatch(a, req) ==
  IF req.path # "/" THEN a
  ELSE IF ~IsNull(req.error)
    THEN [a EXCEPT !.server = "closed",
                   !.outcome = Settle(@, <<"reject", "OAuth error: " \o Val(req.error)>>)]
  ELSE IF req.state # Some(a.expectedState) \/ IsNull(req.code)
    THEN [a EXCEPT !.server = "closed", !.outcome = Settle(@, <<"reject", "State mismatch">>)]
  ELSE [a EXCEPT !.server = "closed", !.outcome = Settle(@, <<"resolve", Val(req.code)>>)]

\* Mutant of HandleRequest: the state is compared only when the request
\* carries one.
HandleRequest_MissingStateAccepted(a, req) ==
  IF req.path # "/" THEN a
  ELSE IF ~IsNull(req.error)
    THEN [a EXCEPT !.server = "closed", !.outcome = Settle(@, <<"reject", ErrOAuth(Val(req.error))>>)]
  ELSE IF ~IsNull(req.state) /\ req.state # Some(a.expectedState)
    THEN [a EXCEPT !.server = "closed", !.outcome = Settle(@, <<"reject", ErrStateMismatch>>)]
  ELSE IF ~IsNull(req.code)
    THEN [a EXCEPT !.server = "closed", !.outcome = Settle(@, <<"resolve", Val(req.code)>>)]
  ELSE [a EXCEPT !.server = "closed", !.outcome = Settle(@, <<"reject", ErrNoCode>>)]

\* The request handler of startCallbackServer applied to one request:
\* the attempt record afterwards.
HandleRequest(a, req) ==
  IF req.path # "/" THEN a
  ELSE IF ~IsNull(req.error)
    THEN [a EXCEPT !.server = "closed", !.outcome = Settle(@, <<"reject", ErrOAuth(Val(req.error))>>)]
  ELSE IF req.state # Some(a.expectedState)
    THEN [a EXCEPT !.server = "closed", !.outcome = Settle(@, <<"reject", ErrStateMismatch>>)]
  ELSE IF ~IsNull(req.code)
    THEN [a EXCEPT !.server = "closed", !.outcome = Settle(@, <<"resolve", Val(req.code)>>)]
  ELSE [a EXCEPT !.server = "closed", !.outcome = Settle(@, <<"reject", ErrNoCode>>)]

\* Mutant of HandleTimeout: the timeout rejects but server.close() is missing.
HandleTimeout_NoClose(a) ==
  [a EXCEPT !.outcome = Settle(@, <<"reject", "Authentication timeout">>), !.timer = "fired"]

\* Mutant of HandleTimeout: the server is closed but reject() is missing.
HandleTimeout_NoReject(a) == [a EXCEPT !.server = "closed", !.timer = "fired"]

\* The setTimeout callback of startCallbackServer.
HandleTimeout(a) ==
  [a EXCEPT !.server = "closed", !.outcome = Settle(@, <<"reject", ErrTimeout>>),
            !.timer = "fired"]


\* ------------------------------------------------------------ token grants
\* File contents that are not a StoredToken: a file of length zero (what
\* writeFile leaves between opening the file and writing it) and a JSON
\* object that lacks fields.
EmptyFile == [text |-> ""]
MissingFields == [access_token |-> <<"AT", "file", 0>>]

\* JSON.parse throws on the content.
Unparseable(content) == "text" \in DOMAIN content

\* A StoredToken with all its fields.
WellFormed(content) ==
  DOMAIN content = {"access_token", "refresh_token", "expires_in", "token_type", "created_at"}

\* TokenStorage.loadToken: JSON.parse of the file content, whatever object
\* it yields; null when readFile or JSON.parse throws.
LoadToken(file) ==
  IF IsNull(file) THEN Null
  ELSE IF Unparseable(Val(file)) THEN Null
  ELSE file

\* Mutant of RefreshThrows: the client secret is checked first.
RefreshThrows_SecretFirst(tok, cfg) ==
  IF ~cfg.clientSecret THEN Some(ErrNoClientSecret)
  ELSE IF ~HasRefreshToken(tok) THEN Some(ErrNoRefreshToken)
  ELSE Null

\* The checks refreshToken() makes before its request: the error it throws,
\* or null when it goes on to the token endpoint.
RefreshThrows(tok, cfg) ==
  IF ~HasRefreshToken(tok) THEN Some(ErrNoRefreshToken)
  ELSE IF ~cfg.clientSecret THEN Some(ErrNoClientSecret)
  ELSE Null

\* The check authenticate() makes before its request.
AuthenticateThrows(cfg) ==
  IF ~cfg.userpass \/ ~cfg.clientSecret THEN Some(ErrMissingCredentials) ELSE Null

RefreshRequest(tok) ==
  [grant_type |-> "refresh_token", refresh_token |-> Val(tok).refresh_token]

\* Mutant of ExchangeRequest: the challenge is sent in place of the verifier.
ExchangeRequest_SendsChallenge(code, codeVerifier) ==
  [grant_type |-> "authorization_code", code |-> code, code_verifier |-> Challenge(codeVerifier)]

ExchangeRequest(code, codeVerifier) ==
  [grant_type |-> "authorization_code", code |-> code, code_verifier |-> codeVerifier]

PasswordRequest == [grant_type |-> "password"]

\* The caller's frame when its call returns or throws.
Finished(c, r) ==
  [c EXCEPT !.pc = "idle", !.result = r, !.storedToken = Null, !.pendingWrite = Null,
            !.inflight = Null, !.apiAuth = Null]

\* The frame after `await this.ensureAuthenticated()` returned inside an API
\* wrapper: the GET goes out with the header the axios instance holds now.
ApiRequestSent(c, header) ==
  [c EXCEPT !.pc = "api_get_wait", !.inflight = Null, !.pendingWrite = Null,
            !.apiAuth = header]

\* Mutant of AdoptResponse: updateAuthHeader() is not called.
AdoptResponse_HeaderNotUpdated(resp) ==
  /\ token' = Some(resp)
  /\ tokenExpiry' = Some(now + Ms(Val(token').expires_in * 1000))
  /\ authHeader' = authHeader

\* this.token = response.data; this.tokenExpiry = ...; this.updateAuthHeader()
AdoptResponse(resp) ==
  /\ token' = Some(resp)
  /\ tokenExpiry' = Some(now + Ms(Val(token').expires_in * 1000))
  /\ authHeader' = UpdateAuthHeader(token', authHeader)

\* A successful token-endpoint response: the next token the provider issues
\* (with a refresh token: the client asks for the offline_access scope).
Responses == {Issued(issued + 1, TRUE, e) : e \in ExpiresInValues}

\* The catch block of client.ts 67-70 is entered: deleteToken() is awaited.
AwbRefreshCaught(c) == [c EXCEPT !.pc = "awb_delete", !.inflight = Null, !.pendingWrite = Null]

\* refreshToken() threw: authenticateWithBrowser catches it (67-70), the
\* other callers let it propagate.
RefreshThrown(c, err) ==
  IF c.op = "authenticateWithBrowser" THEN AwbRefreshCaught(c) ELSE Finished(c, err)

\* refreshToken() up to its first await, entered by a caller whose frame is c
\* with this.token = tok: the pre-checks throw to the caller, else the request
\* is sent.
RefreshCall(p, c, tok) ==
  LET err == RefreshThrows(tok, config)
  IN  call' = [call EXCEPT ![p] =
        IF IsNull(err)
          THEN [c EXCEPT !.pc = "refresh_wait", !.inflight = Some(RefreshRequest(tok))]
          ELSE RefreshThrown(c, Val(err))]

\* --------------------------------------------- authenticateWithBrowser
StartAuthenticateWithBrowser(p) ==
  /\ p = "main"
  /\ call[p].pc = "idle"
  /\ Len(attempts) < MaxListeners
  /\ call' = [call EXCEPT ![p] =
       [IdleCall EXCEPT !.op = "authenticateWithBrowser", !.pc = "awb_load"]]
  /\ UNCHANGED <<now, config, token, tokenExpiry, authHeader, store, issued, overlapping, retired, attempts>>

\* await this.tokenStorage.loadToken()
AwbLoad(p) ==
  /\ call[p].pc = "awb_load"
  /\ call' = [call EXCEPT ![p].pc = "awb_loaded", ![p].storedToken = LoadToken(store)]
  /\ UNCHANGED <<now, config, token, tokenExpiry, authHeader, store, issued, overlapping, retired, attempts>>

StoredUsable(st, time) == ~IsNull(st) /\ ~StoreIsTokenExpired(Val(st), time)

\* client.ts 52-58: a stored token that is not expired is adopted.
AwbUseStored(p) ==
  /\ call[p].pc = "awb_loaded"
  /\ StoredUsable(call[p].storedToken, now)
  /\ token' = call[p].storedToken
  /\ tokenExpiry' = Some(Val(token').created_at + Ms(Val(token').expires_in * 1000))
  /\ authHeader' = UpdateAuthHeader(token', authHeader)
  /\ call' = [call EXCEPT ![p] = Finished(@, "ok")]
  /\ UNCHANGED <<now, config, store, issued, overlapping, retired, attempts>>

\* client.ts 61-66: an expired stored token with a refresh token is made
\* this.token and refreshToken() is called.
AwbTryRefresh(p) ==
  /\ call[p].pc = "awb_loaded"
  /\ ~StoredUsable(call[p].storedToken, now)
  /\ HasRefreshToken(call[p].storedToken)
  /\ token' = call[p].storedToken
  /\ RefreshCall(p, call[p], token')
  /\ UNCHANGED <<now, config, tokenExpiry, authHeader, store, issued, overlapping, retired, attempts>>

\* client.ts 73-97: PKCE pair, state, the callback server and the browser
\* launch are started; the call waits on Promise.all.
StartFlow(p) ==
  LET n == Len(attempts) + 1
  IN  /\ n <= MaxListeners + MaxRetries
      /\ attempts' = Append(attempts, NewAttempt(n, now))
      /\ call' = [call EXCEPT ![p].pc = "awb_wait_code", ![p].attempt = n]

AwbNoRefreshToken(p) ==
  /\ call[p].pc = "awb_loaded"
  /\ ~StoredUsable(call[p].storedToken, now)
  /\ ~HasRefreshToken(call[p].storedToken)
  /\ StartFlow(p)
  /\ UNCHANGED <<now, config, token, tokenExpiry, authHeader, store, issued, overlapping, retired>>

\* await this.tokenStorage.deleteToken() in the catch block, then the flow.
AwbDeleted(p) ==
  /\ call[p].pc = "awb_delete"
  /\ store' = Null
  /\ StartFlow(p)
  /\ UNCHANGED <<now, config, token, tokenExpiry, authHeader, issued, overlapping, retired>>

\* What is left of an attempt once Promise.all has handed its result to
\* authenticateWithBrowser: nothing holds the promise or the browser task any
\* longer; the server object and the timer (which is never cleared) remain.
Delivered(a) == [a EXCEPT !.outcome = Some(<<"delivered">>), !.browser = "unobserved"]

\* Mutant of AwbListenerRejected: the rejection is swallowed and the exchange
\* is attempted with the rejection message in place of the code.
AwbListenerRejected_Swallowed(p) ==
  /\ call[p].pc = "awb_wait_code"
  /\ LET a == attempts[call[p].attempt]
     IN  /\ ~IsNull(a.outcome)
         /\ Val(a.outcome)[1] = "reject"
         /\ call' = [call EXCEPT ![p].pc = "exchange_wait",
                       ![p].inflight = Some(ExchangeRequest(Val(a.outcome)[2], a.codeVerifier))]
         /\ attempts' = [attempts EXCEPT ![call[p].attempt] = Delivered(@)]
  /\ UNCHANGED <<now, config, token, tokenExpiry, authHeader, store, issued, overlapping, retired>>

\* Promise.all rejects as soon as the listener's promise rejects.
AwbListenerRejected(p) ==
  /\ call[p].pc = "awb_wait_code"
  /\ LET a == attempts[call[p].attempt]
     IN  /\ ~IsNull(a.outcome)
         /\ Val(a.outcome)[1] = "reject"
         /\ call' = [call EXCEPT ![p] = Finished(@, Val(a.outcome)[2])]
         /\ attempts' = [attempts EXCEPT ![call[p].attempt] = Delivered(@)]
  /\ UNCHANGED <<now, config, token, tokenExpiry, authHeader, store, issued, overlapping, retired>>

\* Promise.all resolves once the listener resolved and the browser task
\* (with its catch) completed; exchangeCodeForToken sends its request.
AwbCodeReceived(p) ==
  /\ call[p].pc = "awb_wait_code"
  /\ LET a == attempts[call[p].attempt]
     IN  /\ ~IsNull(a.outcome)
         /\ Val(a.outcome)[1] = "resolve"
         /\ a.browser # "pending"
         /\ call' = [call EXCEPT ![p].pc = "exchange_wait",
                       ![p].inflight = Some(ExchangeRequest(Val(a.outcome)[2], a.codeVerifier))]
         /\ attempts' = [attempts EXCEPT ![call[p].attempt] = Delivered(@)]
  /\ UNCHANGED <<now, config, token, tokenExpiry, authHeader, store, issued, overlapping, retired>>

\* client.ts 134-136 and 105-106: the exchange succeeded, saveToken is called.
ExchangeAnswered(p, resp) ==
  /\ call[p].pc = "exchange_wait"
  /\ issued < MaxTokens
  /\ AdoptResponse(resp)
  /\ call' = [call EXCEPT ![p].pc = "awb_save", ![p].inflight = Null,
                ![p].pendingWrite = IF IsNull(token') THEN Null
                                    ELSE Some(SaveRecord(Val(token'), now))]
  /\ issued' = issued + 1
  /\ UNCHANGED <<now, config, store, overlapping, retired, attempts>>

ExchangeResponse(p) == \E resp \in Responses : ExchangeAnswered(p, resp)

ExchangeRejected(p) ==
  /\ call[p].pc = "exchange_wait"
  /\ \E error \in Rejections : call' = [call EXCEPT ![p] = Finished(@, ErrExchangeFailed(error))]
  /\ UNCHANGED <<now, config, token, tokenExpiry, authHeader, store, issued, overlapping, retired, attempts>>

\* The writeFile of saveToken completes; authenticateWithBrowser returns.
AwbSaved(p) ==
  /\ call[p].pc = "awb_save"
  /\ store' = call[p].pendingWrite
  /\ call' = [call EXCEPT ![p] = Finished(@, "ok")]
  /\ UNCHANGED <<now, config, token, tokenExpiry, authHeader, issued, overlapping, retired, attempts>>

\* ---------------------------------------------------------- refreshToken
\* client.ts 212-218: the refresh succeeded; the response is adopted and
\* saveToken(this.token) is called with the save time taken now.
RefreshResponse(p) ==
  /\ call[p].pc = "refresh_wait"
  /\ issued < MaxTokens
  /\ \E resp \in Responses :
       /\ AdoptResponse(resp)
       /\ call' = [call EXCEPT ![p].pc = "refresh_save", ![p].inflight = Null,
                     ![p].refreshed = Some(resp),
                     ![p].pendingWrite = IF IsNull(token') THEN Null
                                         ELSE Some(SaveRecord(Val(token'), now))]
  /\ issued' = issued + 1
  /\ retired' = retired \cup {Val(token).access_token}
  /\ UNCHANGED <<now, config, store, overlapping, attempts>>

\* client.ts 220-222: the request failed.
RefreshRejected(p) ==
  /\ call[p].pc = "refresh_wait"
  /\ \E error \in Rejections : call' = [call EXCEPT ![p] = RefreshThrown(@, ErrRefreshFailed(error))]
  /\ UNCHANGED <<now, config, token, tokenExpiry, authHeader, store, issued, overlapping, retired, attempts>>

\* The writeFile of saveToken completes and refreshToken() returns: to
\* authenticateWithBrowser (which returns), to ensureAuthenticated (the API
\* request goes out) or to the caller of refreshToken().
RefreshSaved(p) ==
  /\ call[p].pc = "refresh_save"
  /\ store' = call[p].pendingWrite
  /\ call' = [call EXCEPT ![p] =
       IF @.op = "api" THEN ApiRequestSent(@, authHeader) ELSE Finished(@, "ok")]
  /\ UNCHANGED <<now, config, token, tokenExpiry, authHeader, issued, overlapping, retired, attempts>>

\* A direct call of the public refreshToken().
StartRefreshToken(p) ==
  /\ p = "main"
  /\ call[p].pc = "idle"
  /\ LET c == [IdleCall EXCEPT !.op = "refreshToken"]
     IN  RefreshCall(p, c, token)
  /\ UNCHANGED <<now, config, token, tokenExpiry, authHeader, store, issued, overlapping, retired, attempts>>

\* ---------------------------------------------------------- authenticate
\* authenticate() up to its first await.
AuthenticateCall(p, c) ==
  LET err == AuthenticateThrows(config)
  IN  call' = [call EXCEPT ![p] =
        IF IsNull(err)
          THEN [c EXCEPT !.pc = "auth_wait", !.inflight = Some(PasswordRequest)]
          ELSE Finished(c, Val(err))]

\* A direct call of the public authenticate().
StartAuthenticate(p) ==
  /\ p = "main"
  /\ call[p].pc = "idle"
  /\ AuthenticateCall(p, [IdleCall EXCEPT !.op = "authenticate"])
  /\ UNCHANGED <<now, config, token, tokenExpiry, authHeader, store, issued, overlapping, retired, attempts>>

\* client.ts 172-174: the password grant succeeded.
AuthResponse(p) ==
  /\ call[p].pc = "auth_wait"
  /\ issued < MaxTokens
  /\ \E resp \in Responses : AdoptResponse(resp)
  /\ call' = [call EXCEPT ![p] =
       IF @.op = "api" THEN ApiRequestSent(@, authHeader') ELSE Finished(@, "ok")]
  /\ issued' = issued + 1
  /\ UNCHANGED <<now, config, store, overlapping, retired, attempts>>

AuthRejected(p) ==
  /\ call[p].pc = "auth_wait"
  /\ \E error \in Rejections : call' = [call EXCEPT ![p] = Finished(@, ErrAuthFailed(error))]
  /\ UNCHANGED <<now, config, token, tokenExpiry, authHeader, store, issued, overlapping, retired, attempts>>

\* -------------------------------------------------------------- API calls
\* An API wrapper (getInstallations, ...) is called: ensureAuthenticated runs
\* up to its first await, or returns at once and the request is sent.
StartApi(p) ==
  /\ call[p].pc = "idle"
  /\ p = "main" \/ overlapping
  /\ overlapping \/ \A q \in Procs : call[q].pc = "idle"
  /\ LET c == [IdleCall EXCEPT !.op = "api"]
     IN  IF IsNull(token) THEN AuthenticateCall(p, c)
         ELSE IF ClientIsTokenExpired(tokenExpiry, now)
           THEN RefreshCall(p, c, token)
         ELSE call' = [call EXCEPT ![p] = ApiRequestSent(c, authHeader)]
  /\ UNCHANGED <<now, config, token, tokenExpiry, authHeader, store, issued, overlapping, retired, attempts>>

\* The API response arrives and the wrapper returns.
ApiResponse(p) ==
  /\ call[p].pc = "api_get_wait"
  /\ call' = [call EXCEPT ![p] = Finished(@, "ok")]
  /\ UNCHANGED <<now, config, token, tokenExpiry, authHeader, store, issued, overlapping, retired, attempts>>

\* ------------------------------------------------------------ environment
\* A callback request reaches the request handler: over a new connection
\* while the server listens, or later over a connection kept alive from
\* before close() (close() only stops new connections).  A request the
\* handler leaves without effect is a stuttering step.
Deliver(i, req) ==
  /\ i \in 1..Len(attempts)
  /\ HandleRequest(attempts[i], req) # attempts[i]
  /\ attempts' = [attempts EXCEPT ![i] = HandleRequest(@, req)]
  /\ UNCHANGED <<now, config, token, tokenExpiry, authHeader, store, issued, call, overlapping, retired>>

\* The 5-minute timer of a callback server fires (it is never cleared).
TimerFires(i) ==
  /\ i \in 1..Len(attempts)
  /\ attempts[i].timer = "pending"
  /\ now >= attempts[i].due
  /\ attempts' = [attempts EXCEPT ![i] = HandleTimeout(@)]
  /\ UNCHANGED <<now, config, token, tokenExpiry, authHeader, store, issued, call, overlapping, retired>>

\* openBrowser(authUrl).catch(...) completes, the launch having worked or not.
BrowserDone(i, ok) ==
  /\ i \in 1..Len(attempts)
  /\ attempts[i].browser = "pending"
  /\ attempts' = [attempts EXCEPT ![i].browser = IF ok THEN "opened" ELSE "failed"]
  /\ UNCHANGED <<now, config, token, tokenExpiry, authHeader, store, issued, call, overlapping, retired>>

\* A listening server whose timer is not yet due.
TimerAwaited ==
  \E i \in 1..Len(attempts) :
    attempts[i].server = "listening" /\ attempts[i].timer = "pending" /\ now < attempts[i].due

\* Time passes.  The clock runs MaxTicks steps, and further while a
\* listening callback server still waits for its timer.
Tick ==
  /\ now < MaxTicks * TickSeconds \/ TimerAwaited
  /\ now' = now + TickSeconds
  /\ UNCHANGED <<config, token, tokenExpiry, authHeader, store, issued, call, overlapping, retired, attempts>>

Next ==
  \/ \E p \in Procs :
       \/ StartAuthenticateWithBrowser(p)
       \/ AwbLoad(p)
       \/ AwbUseStored(p)
       \/ AwbTryRefresh(p)
       \/ AwbNoRefreshToken(p)
       \/ AwbDeleted(p)
       \/ AwbListenerRejected(p)
       \/ AwbCodeReceived(p)
       \/ ExchangeResponse(p)
       \/ ExchangeRejected(p)
       \/ AwbSaved(p)
       \/ RefreshResponse(p)
       \/ RefreshRejected(p)
       \/ RefreshSaved(p)
       \/ StartRefreshToken(p)
       \/ StartAuthenticate(p)
       \/ AuthResponse(p)
       \/ AuthRejected(p)
       \/ StartApi(p)
       \/ ApiResponse(p)
  \/ \E i \in 1..(MaxListeners + MaxRetries) :
       \/ \E req \in Requests : Deliver(i, req)
       \/ TimerFires(i)
       \/ \E ok \in BOOLEAN : BrowserDone(i, ok)
  \/ Tick

Spec == Init /\ [][Next]_vars

\* ------------------------------------------------------------------ retries
\* The application, told that authenticateWithBrowser failed or having used
\* its token for a while, calls authenticateWithBrowser once more.
RestartAuthenticateWithBrowser(p) ==
  /\ p = "main"
  /\ call[p].pc = "idle"
  /\ Len(attempts) >= MaxListeners
  /\ Len(attempts) < MaxListeners + MaxRetries
  /\ call' = [call EXCEPT ![p] =
       [IdleCall EXCEPT !.op = "authenticateWithBrowser", !.pc = "awb_load"]]
  /\ UNCHANGED <<now, config, token, tokenExpiry, authHeader, store, issued, overlapping, retired, attempts>>

\* A client with client secret and user credentials, no token file.
RetryInit == Init /\ config = Config(TRUE, TRUE, FALSE, FALSE) /\ store = Null

RetryNext == Next \/ \E p \in Procs : RestartAuthenticateWithBrowser(p)

RetrySpec == RetryInit /\ [][RetryNext]_vars

\* ------------------------------------------------------------ long runs
\* The process stays idle for the nominal lifetime of a pre-supplied token.
Sleep ==
  /\ \A p \in Procs : call[p].pc = "idle"
  /\ now < PresetLifetime
  /\ now' = now + PresetLifetime
  /\ UNCHANGED <<config, token, tokenExpiry, authHeader, store, issued, call, overlapping, retired, attempts>>

\* A client constructed with a pre-supplied access token.
LongRunInit == Init /\ config.accessToken

LongRunNext == Next \/ Sleep

LongRunSpec == LongRunInit /\ [][LongRunNext]_vars

\* --------------------------------------------------------- one-hour tokens
\* The provider's usual answer: a token that lasts one hour.
HourResponse == Issued(issued + 1, TRUE, 60 * 60)

ExchangeResponseHour(p) == ExchangeAnswered(p, HourResponse)

\* Minutes after the exchange at which the application comes back.
MinutesLater == {54, 56, 59}

\* The application stays idle for m minutes after a one-hour token was saved.
Elapse(m) ==
  /\ \A p \in Procs : call[p].pc = "idle"
  /\ ~IsNull(store) /\ Val(store).expires_in = 60 * 60 /\ Val(store).created_at = now
  /\ now' = now + m * 60
  /\ UNCHANGED <<config, token, tokenExpiry, authHeader, store, issued, call, overlapping, retired, attempts>>

HourNext ==
  \/ RetryNext
  \/ \E p \in Procs : ExchangeResponseHour(p)
  \/ \E m \in MinutesLater : Elapse(m)

HourSpec == RetryInit /\ [][HourNext]_vars

\* ------------------------------------------------------- concurrent calls
\* An application that issues API calls without awaiting the previous one, on
\* a client constructed with access token, refresh token and client secret,
\* and that keeps running until the pre-supplied token is soon-expired.
ConcurrentInit ==
  /\ now = 0
  /\ config = Config(TRUE, FALSE, TRUE, TRUE)
  /\ store = Null
  /\ token = Some(PresetToken(config))
  /\ tokenExpiry = Some(now + PresetLifetime)
  /\ authHeader = UpdateAuthHeader(token, Null)
  /\ issued = 0
  /\ call = [p \in Procs |-> IdleCall]
  /\ overlapping = TRUE
  /\ retired = {}
  /\ attempts = <<>>

ConcurrentNext ==
  \/ \E p \in Procs :
       \/ StartApi(p)
       \/ RefreshResponse(p)
       \/ RefreshRejected(p)
       \/ RefreshSaved(p)
       \/ ApiResponse(p)
  \/ Sleep
  \/ Tick

ConcurrentSpec == ConcurrentInit /\ [][ConcurrentNext]_vars

\* ------------------------------------------------------------ token grants
\* Clients that call the grants directly, under every combination of the
\* optional configuration fields (a refresh token is only read together with
\* an access token).
GrantConfigs ==
  {Config(s, u, a, r) : s \in BOOLEAN, u \in BOOLEAN, a \in BOOLEAN, r \in BOOLEAN} \
    {Config(s, u, FALSE, TRUE) : s \in BOOLEAN, u \in BOOLEAN}

GrantInit ==
  /\ now = 0
  /\ config \in GrantConfigs
  /\ store = Null
  /\ token = IF config.accessToken THEN Some(PresetToken(config)) ELSE Null
  /\ tokenExpiry = IF config.accessToken THEN Some(now + PresetLifetime) ELSE Null
  /\ authHeader = UpdateAuthHeader(token, Null)
  /\ issued = 0
  /\ call = [p \in Procs |-> IdleCall]
  /\ overlapping = FALSE
  /\ retired = {}
  /\ attempts = <<>>

GrantNext ==
  \/ \E p \in Procs :
       \/ StartRefreshToken(p)
       \/ RefreshResponse(p)
       \/ RefreshRejected(p)
       \/ RefreshSaved(p)
       \/ StartAuthenticate(p)
       \/ AuthResponse(p)
       \/ AuthRejected(p)
       \/ StartApi(p)
       \/ ApiResponse(p)
  \/ Tick

GrantSpec == GrantInit /\ [][GrantNext]_vars

\* -------------------------------------------------------------------- PKCE
\* generatePKCE as a function of the bytes crypto.randomBytes(32) returns.
\* The characters of the base64 encodings, by sextet value.
B64Letters ==
  <<
    "A", "B", "C", "D", "E", "F", "G", "H", "I", "J", "K", "L", "M", "N", "O", "P",
    "Q", "R", "S", "T", "U", "V", "W", "X", "Y", "Z", "a", "b", "c", "d", "e", "f",
    "g", "h", "i", "j", "k", "l", "m", "n", "o", "p", "q", "r", "s", "t", "u", "v",
    "w", "x", "y", "z", "0", "1", "2", "3", "4", "5", "6", "7", "8", "9"
  >>

Base64UrlAlphabet == B64Letters \o <<"-", "_">>
Base64Alphabet == B64Letters \o <<"+", "/">>

\* The 6-bit groups of a byte sequence, the last group filled with zero bits.
RECURSIVE Sextets(_)
Sextets(bytes) ==
  IF Len(bytes) = 0 THEN <<>>
  ELSE IF Len(bytes) = 1 THEN <<bytes[1] \div 4, (bytes[1] % 4) * 16>>
  ELSE IF Len(bytes) = 2
    THEN <<bytes[1] \div 4, (bytes[1] % 4) * 16 + bytes[2] \div 16, (bytes[2] % 16) * 4>>
  ELSE <<bytes[1] \div 4, (bytes[1] % 4) * 16 + bytes[2] \div 16,
         (bytes[2] % 16) * 4 + bytes[3] \div 64, bytes[3] % 64>>
       \o Sextets(SubSeq(bytes, 4, Len(bytes)))

\* Mutant of Base64Url: toString('base64'), the standard alphabet with '='
\* padding to a multiple of four characters.
Base64(bytes) ==
  LET six == Sextets(bytes)
      text == [i \in 1..Len(six) |-> Base64Alphabet[six[i] + 1]]
  IN  text \o [i \in 1..((4 - (Len(six) % 4)) % 4) |-> "="]

\* Buffer.toString('base64url'): URL-safe alphabet, no padding.
Base64Url(bytes) ==
  LET six == Sextets(bytes)
  IN  [i \in 1..Len(six) |-> Base64UrlAlphabet[six[i] + 1]]

\* createHash('sha256').update(text).digest('base64url'); SHA-256 itself is
\* left uninterpreted.
Sha256Base64Url(text) == <<"base64url", <<"sha256", text>>>>

\* generatePKCE (oauth.ts 27-38)
GeneratePKCE(bytes) ==
  LET codeVerifier == Base64Url(bytes)
  IN  [codeVerifier |-> codeVerifier, codeChallenge |-> Sha256Base64Url(codeVerifier)]

\* Values crypto.randomBytes(32) can return: 32 bytes, here alternating
\* between two byte values.
VerifierBytes == 32
ByteValues == {0, 62, 251, 255}
RandomBytes == {[i \in 1..VerifierBytes |-> IF i % 2 = 1 THEN b ELSE c] : b, c \in ByteValues}

MaxPairs == 2             \* calls of generatePKCE

\* An application that calls generatePKCE repeatedly; the pairs it got are
\* kept in attempts.
PkceInit ==
  /\ now = 0
  /\ config = Config(FALSE, FALSE, FALSE, FALSE)
  /\ store = Null
  /\ token = Null
  /\ tokenExpiry = Null
  /\ authHeader = Null
  /\ issued = 0
  /\ call = [p \in Procs |-> IdleCall]
  /\ overlapping = FALSE
  /\ retired = {}
  /\ attempts = <<>>

CallGeneratePKCE(bytes) ==
  /\ Len(attempts) < MaxPairs
  /\ attempts' = Append(attempts, GeneratePKCE(bytes))
  /\ UNCHANGED <<now, config, token, tokenExpiry, authHeader, store, issued, call, overlapping, retired>>

PkceNext == \E bytes \in RandomBytes : CallGeneratePKCE(bytes)

PkceSpec == PkceInit /\ [][PkceNext]_vars

\* ------------------------------------------------------------ TokenStorage
\* An application using TokenStorage directly (it is exported): its callers
\* run saveToken, loadToken and deleteToken on one token file.
TokenFiles == InitialStores \cup {Some(EmptyFile), Some(MissingFields)}

\* Tokens handed to saveToken: a token-endpoint response, and a StoredToken
\* loaded earlier (it carries created_at = 0).
SaveInputs == {AuthToken(<<"AT", "app", 1>>, NoRefreshToken, 900), FileRecord(TRUE, 900)}

StorageInit ==
  /\ now = 0
  /\ config = Config(FALSE, FALSE, FALSE, FALSE)
  /\ store \in TokenFiles
  /\ token = Null
  /\ tokenExpiry = Null
  /\ authHeader = Null
  /\ issued = 0
  /\ call = [p \in Procs |-> IdleCall]
  /\ overlapping = FALSE
  /\ retired = {}
  /\ attempts = <<>>

\* saveToken(t) is called: the record is built with created_at = Date.now()
\* and writeFile is started.
StartSaveToken(p, t) ==
  /\ call[p].pc = "idle"
  /\ call' = [call EXCEPT ![p] =
       [IdleCall EXCEPT !.op = "saveToken", !.pc = "save_open", !.arg = Some(t),
                        !.pendingWrite = Some(SaveRecord(t, now))]]
  /\ UNCHANGED <<now, config, token, tokenExpiry, authHeader, store, issued, overlapping, retired, attempts>>

\* writeFile opens the file with flag 'w': it is created or truncated.
SaveTruncated(p) ==
  /\ call[p].pc = "save_open"
  /\ store' = Some(EmptyFile)
  /\ call' = [call EXCEPT ![p].pc = "save_write", ![p].replaced = store]
  /\ UNCHANGED <<now, config, token, tokenExpiry, authHeader, issued, overlapping, retired, attempts>>

\* writeFile writes the JSON text and saveToken returns.
SaveWritten(p) ==
  /\ call[p].pc = "save_write"
  /\ store' = call[p].pendingWrite
  /\ call' = [call EXCEPT ![p].pc = "idle", ![p].result = "ok", ![p].pendingWrite = Null]
  /\ UNCHANGED <<now, config, token, tokenExpiry, authHeader, issued, overlapping, retired, attempts>>

\* loadToken() is called.
StartLoadToken(p) ==
  /\ call[p].pc = "idle"
  /\ call' = [call EXCEPT ![p].op = "loadToken", ![p].pc = "load_read", ![p].loaded = Null]
  /\ UNCHANGED <<now, config, token, tokenExpiry, authHeader, store, issued, overlapping, retired, attempts>>

\* readFile and JSON.parse: loadToken returns.
LoadRead(p) ==
  /\ call[p].pc = "load_read"
  /\ call' = [call EXCEPT ![p].pc = "idle", ![p].result = "ok", ![p].loaded = LoadToken(store)]
  /\ UNCHANGED <<now, config, token, tokenExpiry, authHeader, store, issued, overlapping, retired, attempts>>

\* deleteToken(): unlink, errors ignored.
DeleteToken(p) ==
  /\ call[p].pc = "idle"
  /\ ~IsNull(store)
  /\ store' = Null
  /\ call' = [call EXCEPT ![p] = [IdleCall EXCEPT !.op = "deleteToken", !.result = "ok"]]
  /\ UNCHANGED <<now, config, token, tokenExpiry, authHeader, issued, overlapping, retired, attempts>>

\* Time passes between the storage calls.
StorageTick ==
  /\ now < MaxTicks * TickSeconds
  /\ now' = now + TickSeconds
  /\ UNCHANGED <<config, token, tokenExpiry, authHeader, store, issued, call, overlapping, retired, attempts>>

StorageNext ==
  \/ \E p \in Procs :
       \/ \E t \in SaveInputs : StartSaveToken(p, t)
       \/ SaveTruncated(p)
       \/ SaveWritten(p)
       \/ StartLoadToken(p)
       \/ LoadRead(p)
       \/ DeleteToken(p)
  \/ StorageTick

StorageSpec == StorageInit /\ [][StorageNext]_vars

TypeOK ==
  /\ now \in Nat
  /\ issued \in 0..MaxTokens
  /\ Len(attempts) <= MaxListeners + MaxRetries
  /\ \A p \in Procs : call[p].pc \in
       {"idle", "awb_load", "awb_loaded", "awb_delete", "awb_wait_code", "exchange_wait",
        "awb_save", "refresh_wait", "refresh_save", "auth_wait", "api_get_wait"}

\* ------------------------------------------------------------------ claims
Main == call["main"]

\* A caller's ensureAuthenticated() returns without throwing in this step:
\* its API request goes out.
EnsureAuthenticatedReturns(p) ==
  call[p].pc # "api_get_wait" /\ call'[p].pc = "api_get_wait"

\* C1 as stated: whenever ensureAuthenticated completes without error the
\* client holds a non-null token that is not soon-expired,
\* now < tokenExpiry - 5 minutes, whichever grant produced it.
C1_AlwaysFresh ==
  [][\A p \in Procs : EnsureAuthenticatedReturns(p) =>
        /\ ~IsNull(token') /\ ~IsNull(tokenExpiry')
        /\ now' < Val(tokenExpiry') - Ms(5 * 60 * 1000)]_vars

\* C1 amended: whenever ensureAuthenticated completes without error the
\* client holds a non-null token with an expiry; that token is not
\* soon-expired when the call made no grant, and after a password or refresh
\* grant made by the call it is the granted token, with the expiry
\* (instant of the response) + expires_in * 1000, whatever expires_in is.
C1_FreshUnlessJustGranted ==
  [][\A p \in Procs : EnsureAuthenticatedReturns(p) =>
        /\ ~IsNull(token') /\ ~IsNull(tokenExpiry')
        /\ call[p].pc = "idle" => now' < Val(tokenExpiry') - Ms(5 * 60 * 1000)
        /\ call[p].pc = "auth_wait" =>
             /\ Val(token').access_token = <<"AT", "issued", issued'>>
             /\ Val(tokenExpiry') = now' + Val(token').expires_in
        /\ call[p].pc = "refresh_save" =>
             /\ Val(token').access_token = <<"AT", "issued", issued'>>
             /\ Val(tokenExpiry') =
                  Val(call[p].pendingWrite).created_at + Val(token').expires_in]_vars

\* C1 witness: an API request is out after a refresh made by
\* ensureAuthenticated, with a token that is not soon-expired.
C1_Witness ==
  /\ Main.pc = "api_get_wait"
  /\ ~IsNull(token) /\ Val(token).access_token[2] = "issued"
  /\ Val(token).access_token \notin retired /\ retired # {}
  /\ now < Val(tokenExpiry) - Ms(5 * 60 * 1000)

\* authenticateWithBrowser's continuation after loadToken() runs in this
\* step and finds the loaded record not expired per the store predicate.
AwbFindsStoredValid(p) ==
  /\ call[p].pc = "awb_loaded"
  /\ call'[p] # call[p]
  /\ ~IsNull(call[p].storedToken)
  /\ now < Val(call[p].storedToken).created_at
             + Val(call[p].storedToken).expires_in - Ms(5 * 60 * 1000)

\* A step in which no token-endpoint request is sent, no callback listener
\* is started and no browser is launched.
NothingSent ==
  /\ attempts' = attempts
  /\ \A q \in Procs : IsNull(call'[q].inflight) \/ call'[q].inflight = call[q].inflight

\* C2: when authenticateWithBrowser finds a stored record that is not expired
\* per the store predicate, it adopts that record as the in-memory token,
\* sets the header to Bearer <its access_token> and returns; up to there the
\* call sends no token-endpoint request and starts no listener or browser.
C2_StoredTokenAdopted ==
  [][\A p \in Procs :
       /\ AwbFindsStoredValid(p) =>
            /\ token' = call[p].storedToken
            /\ authHeader' = <<"Bearer", Val(call[p].storedToken).access_token>>
            /\ call'[p].pc = "idle" /\ call'[p].result = "ok"
            /\ NothingSent
       /\ (call'[p].pc \in {"awb_load", "awb_loaded"} /\ call'[p] # call[p]) => NothingSent]_vars

\* C2 witness: authenticateWithBrowser has returned with the stored record
\* adopted, nothing requested from the provider and no listener started.
C2_Witness ==
  /\ Main.op = "authenticateWithBrowser" /\ Main.pc = "idle" /\ Main.result = "ok"
  /\ ~IsNull(store) /\ token = store
  /\ authHeader = <<"Bearer", Val(store).access_token>>
  /\ issued = 0 /\ attempts = <<>>

\* The listeners that have not reached an outcome yet.
Listening == {i \in 1..Len(attempts) : IsNull(attempts[i].outcome)}

\* C3 as stated: every callback request whose state differs from the expected
\* state makes the listener reject with the state-mismatch failure.
C3_MismatchAlwaysRejects ==
  \A i \in Listening : \A req \in Requests :
    (req.path = "/" /\ req.state # Some(attempts[i].expectedState)) =>
      HandleRequest(attempts[i], req).outcome = Some(<<"reject", "State mismatch">>)

\* C3 amended: every callback request to "/" that carries no error parameter
\* and whose state differs from the expected state (or is absent) makes the
\* listener reject with the state-mismatch failure and close, also when it
\* carries a code; a request with an error parameter is rejected with the
\* provider's error before the state is looked at.
C3_MismatchRejectsUnlessError ==
  \A i \in Listening : \A req \in Requests :
    (req.path = "/" /\ req.state # Some(attempts[i].expectedState)) =>
      LET after == HandleRequest(attempts[i], req)
      IN  /\ after.server = "closed"
          /\ IsNull(req.error) => after.outcome = Some(<<"reject", "State mismatch">>)
          /\ ~IsNull(req.error) =>
               after.outcome = Some(<<"reject", "OAuth error: " \o Val(req.error)>>)

\* C3 witness: a listener has rejected with the state-mismatch failure.
C3_Witness ==
  \E i \in 1..Len(attempts) :
    attempts[i].outcome = Some(<<"reject", "State mismatch">>) /\ attempts[i].server = "closed"

\* authenticateWithBrowser returns in this step from its refresh branch
\* (stored token expired, refresh token present, secret configured, refresh
\* grant succeeded, record written).
AwbRefreshReturns(p) ==
  /\ call[p].op = "authenticateWithBrowser"
  /\ call[p].pc = "refresh_save"
  /\ call'[p].pc = "idle"

\* An API wrapper is called in this step while the client holds a token that
\* is not soon-expired.
ApiCalledWithFreshToken(p) ==
  /\ call[p].pc = "idle" /\ call'[p] # call[p] /\ call'[p].op = "api"
  /\ ~IsNull(token) /\ ~IsNull(tokenExpiry)
  /\ now < Val(tokenExpiry) - Ms(5 * 60 * 1000)

\* C4: refresh on demand.  When authenticateWithBrowser refreshes an expired
\* stored token successfully, the store is overwritten with the refreshed
\* token, the client holds it (header = Bearer <new access_token>) and no
\* interactive flow was started; afterwards no API request carries an access
\* token that a refresh has replaced, and an API call made while the token is
\* not soon-expired sends no token-endpoint request.
C4_RefreshOnDemand ==
  [][\A p \in Procs :
       /\ AwbRefreshReturns(p) =>
            /\ call'[p].result = "ok"
            /\ ~IsNull(store') /\ ~IsNull(token')
            /\ AuthFields(Val(store')) = AuthFields(Val(token'))
            /\ Val(token').access_token = <<"AT", "issued", issued>>
            /\ authHeader' = <<"Bearer", Val(token').access_token>>
            /\ Val(call[p].storedToken).access_token \in retired
            /\ Val(store').access_token # Val(call[p].storedToken).access_token
            /\ call[p].attempt = 0 /\ attempts' = attempts
       /\ call'[p].pc = "api_get_wait" =>
            \A at \in retired' : call'[p].apiAuth # <<"Bearer", at>>
       /\ ApiCalledWithFreshToken(p) =>
            /\ call'[p].pc = "api_get_wait"
            /\ IsNull(call'[p].inflight)
            /\ call'[p].apiAuth = authHeader]_vars

\* C4 witness: authenticateWithBrowser has returned after refreshing the
\* expired stored token: no listener was started, the store and the header
\* hold the refreshed token.
C4_Witness ==
  /\ Main.op = "authenticateWithBrowser" /\ Main.pc = "idle" /\ Main.result = "ok"
  /\ attempts = <<>> /\ issued = 1
  /\ retired = {<<"AT", "file", 0>>}
  /\ ~IsNull(store) /\ Val(store).access_token = <<"AT", "issued", 1>>
  /\ authHeader = <<"Bearer", <<"AT", "issued", 1>>>>

\* C5 as stated: a refresh grant that fails inside authenticateWithBrowser or
\* inside ensureAuthenticated is not propagated to the caller: the stale
\* stored token is deleted and the interactive flow is entered.
C5_RefreshFailureFallsBack ==
  [][\A p \in Procs :
       (/\ call[p].pc = "refresh_wait"
        /\ call[p].op \in {"authenticateWithBrowser", "api"}
        /\ call'[p].pc # "refresh_wait"
        /\ issued' = issued)
       => (call'[p].pc = "awb_delete" /\ call'[p].result \notin {ErrRefreshFailed(e) : e \in Rejections})]_vars

\* C6 as stated: once a refresh attempt has failed inside
\* authenticateWithBrowser, the stale token is neither in the store nor the
\* in-memory token when the call ends, whatever the interactive flow did.
C6_StaleTokenDiscarded ==
  [][\A p \in Procs :
       (/\ call[p].pc \in {"awb_wait_code", "exchange_wait", "awb_save"}
        /\ HasRefreshToken(call[p].storedToken)
        /\ call'[p].pc = "idle")
       => (token' # call[p].storedToken /\ store' # call[p].storedToken)]_vars

\* No public method is running.
Quiescent == \A p \in Procs : call[p].pc = "idle"

\* C7 as stated: whenever no operation is in flight and the in-memory token
\* came from a grant or from the store (it is not the constructor's), the
\* stored record has the same access_token, refresh_token, expires_in and
\* token_type.
C7_StoreMirrorsToken ==
  (Quiescent /\ ~IsNull(token) /\ Val(token).access_token # <<"AT", "config", 0>>) =>
    (~IsNull(store) /\ AuthFields(Val(store)) = AuthFields(Val(token)))

\* The caller waiting on listener i, if any.
Awaiting(i) == {p \in Procs : call[p].pc = "awb_wait_code" /\ call[p].attempt = i}

\* C8: a listener outcome is terminal.  Once the promise is settled the server
\* is closed and stays closed, and its result stays the same through later
\* requests and the timer, until it is handed to authenticateWithBrowser,
\* which fails with that very error or exchanges that very code.
C8_OutcomeTerminal ==
  [][\A i \in 1..Len(attempts) :
       ~IsNull(attempts[i].outcome) =>
         /\ attempts[i].server = "closed" /\ attempts'[i].server = "closed"
         /\ \/ attempts'[i].outcome = attempts[i].outcome
            \/ /\ attempts[i].outcome # Some(<<"delivered">>)
               /\ attempts'[i].outcome = Some(<<"delivered">>)
               /\ \E p \in Awaiting(i) :
                    IF Val(attempts[i].outcome)[1] = "reject"
                      THEN call'[p].pc = "idle" /\ call'[p].result = Val(attempts[i].outcome)[2]
                      ELSE /\ call'[p].pc = "exchange_wait"
                           /\ Val(call'[p].inflight).code = Val(attempts[i].outcome)[2]]_vars

\* C8 witness: the timer fired after the listener had resolved with a code,
\* and the code is still the result.
C8_Witness ==
  \E i \in 1..Len(attempts) :
    /\ attempts[i].timer = "fired"
    /\ ~IsNull(attempts[i].outcome) /\ Val(attempts[i].outcome)[1] = "resolve"

\* C9: in every terminal outcome the port is closed: a settled listener's
\* server is closed, a server listens only while its authenticateWithBrowser
\* call waits for it, and at most one server holds the port.
C9_PortReleased ==
  /\ \A i \in 1..Len(attempts) : ~IsNull(attempts[i].outcome) => attempts[i].server = "closed"
  /\ \A i \in 1..Len(attempts) : attempts[i].server = "listening" => Awaiting(i) # {}
  /\ Cardinality({i \in 1..Len(attempts) : attempts[i].server = "listening"}) <= 1

\* C9 witness: the listener timed out, its server is closed and
\* authenticateWithBrowser has failed with the timeout.
C9_Witness ==
  \E i \in 1..Len(attempts) :
    /\ attempts[i].timer = "fired" /\ attempts[i].server = "closed"
    /\ Main.pc = "idle" /\ Main.result = "Authentication timeout" /\ Main.attempt = i

\* The event loop runs every continuation, timer and response that is due,
\* and the clock advances.
Fairness ==
  /\ WF_vars(Tick)
  /\ \A i \in 1..MaxListeners : WF_vars(TimerFires(i))
  /\ \A p \in Procs : WF_vars(AwbListenerRejected(p))

FairSpec == Spec /\ Fairness

\* C10: a listener that no request terminates rejects with the timeout after
\* the 5-minute window, and authenticateWithBrowser then fails with that
\* timeout without starting another listener: every pending listener is
\* eventually settled or timed out, a timeout that finds the promise pending
\* leads to the call failing with it, and no call that failed with the
\* timeout is followed by a listener it did not have.
C10_TimeoutEndsAttempt ==
  /\ \A i \in 1..MaxListeners :
       (i <= Len(attempts) /\ IsNull(attempts[i].outcome))
         ~> (i <= Len(attempts) /\ ~IsNull(attempts[i].outcome) /\ attempts[i].server = "closed")
  /\ \A i \in 1..MaxListeners :
       (i <= Len(attempts) /\ attempts[i].outcome = Some(<<"reject", "Authentication timeout">>))
         ~> (Main.pc = "idle" /\ Main.result = "Authentication timeout" /\ Main.attempt = i)
  /\ [][\A p \in Procs :
         (call[p].pc = "awb_wait_code" /\ call'[p].pc = "idle") =>
           (Len(attempts') = Len(attempts) /\ IsNull(call'[p].inflight))]_vars

\* C10 witness: the timer fired on a pending listener and the call has failed
\* with the timeout, no token having been requested.
C10_Witness ==
  /\ Len(attempts) = 1 /\ attempts[1].timer = "fired"
  /\ Main.pc = "idle" /\ Main.result = "Authentication timeout"
  /\ issued = 0

\* Callback requests that carry both an error and an error_description.
DeniedRequests ==
  {req \in Requests : req.path = "/" /\ ~IsNull(req.error) /\ ~IsNull(req.error_description)}

\* C11 as stated: a callback request carrying error and error_description makes
\* the listener reject with the provider-denied failure, and the rejection
\* value carries both: two such requests that differ in the error or in the
\* description are rejected with different values.
C11_DeniedCarriesBoth ==
  \A i \in Listening : \A r1 \in DeniedRequests : \A r2 \in DeniedRequests :
    LET o1 == HandleRequest(attempts[i], r1).outcome
        o2 == HandleRequest(attempts[i], r2).outcome
    IN  /\ ~IsNull(o1) /\ Val(o1)[1] = "reject"
        /\ Val(o1)[2] \notin {"State mismatch", "No code received", "Authentication timeout"}
        /\ (r1.error # r2.error \/ r1.error_description # r2.error_description) => o1 # o2

\* C12 as stated: every callback request with neither a code nor an error
\* makes the listener reject with the malformed-callback failure.
C12_NoCodeNoErrorAlwaysMalformed ==
  \A i \in Listening : \A req \in Requests :
    (IsNull(req.code) /\ IsNull(req.error)) =>
      HandleRequest(attempts[i], req).outcome = Some(<<"reject", "No code received">>)

\* C12 amended: a callback request to "/" with neither a code nor an error
\* whose state is the expected one makes the listener close and reject with
\* 'No code received', a failure different from the state-mismatch,
\* provider-denied and timeout failures; with another state (or none) it is
\* the state-mismatch failure, and a request to another path changes nothing.
C12_MalformedWhenStateMatches ==
  \A i \in Listening : \A req \in Requests :
    (IsNull(req.code) /\ IsNull(req.error)) =>
      LET after == HandleRequest(attempts[i], req)
      IN  /\ (req.path = "/" /\ req.state = Some(attempts[i].expectedState)) =>
               /\ after.server = "closed"
               /\ after.outcome = Some(<<"reject", "No code received">>)
               /\ after.outcome # HandleTimeout(attempts[i]).outcome
               /\ \A other \in Requests :
                    (other.path = "/" /\ (~IsNull(other.error) \/ other.state # req.state))
                      => HandleRequest(attempts[i], other).outcome # after.outcome
          /\ (req.path = "/" /\ req.state # Some(attempts[i].expectedState)) =>
               after.outcome = Some(<<"reject", "State mismatch">>)
          /\ req.path # "/" => after = attempts[i]

\* C12 witness: authenticateWithBrowser has failed because the callback had
\* no code.
C12_Witness ==
  /\ Main.op = "authenticateWithBrowser" /\ Main.pc = "idle"
  /\ Main.result = "No code received"
  /\ attempts[Main.attempt].server = "closed"

\* The listener that authenticateWithBrowser of p waits for has rejected.
ListenerRejectedFor(p) ==
  /\ call[p].pc = "awb_wait_code"
  /\ ~IsNull(attempts[call[p].attempt].outcome)
  /\ Val(attempts[call[p].attempt].outcome)[1] = "reject"

\* C13: when the callback listener rejects, authenticateWithBrowser fails
\* with that failure and the attempt ends: from the rejection on the call
\* sends no token request, writes nothing to the store, starts no further
\* listener and launches no browser; its next step is to throw the listener's
\* failure.
C13_RejectionEndsAttempt ==
  [][\A p \in Procs :
       ListenerRejectedFor(p) =>
         LET i == call[p].attempt
         IN  /\ store' = store /\ issued' = issued /\ token' = token
             /\ Len(attempts') = Len(attempts)
             /\ attempts[i].browser # "pending" => attempts'[i].browser # "pending"
             /\ \/ call'[p] = call[p]
                \/ /\ call'[p].pc = "idle"
                   /\ call'[p].result = Val(attempts[i].outcome)[2]
                   /\ IsNull(call'[p].inflight) /\ IsNull(call'[p].pendingWrite)]_vars

\* C13 witness: authenticateWithBrowser has failed with the provider's error
\* after its listener rejected; no token was requested and nothing is stored.
C13_Witness ==
  /\ Main.op = "authenticateWithBrowser" /\ Main.pc = "idle"
  /\ Main.result = "OAuth error: access_denied"
  /\ Len(attempts) = 1 /\ issued = 0 /\ IsNull(store)

\* The listener that authenticateWithBrowser of p waits for has resolved.
ListenerResolvedFor(p) ==
  /\ call[p].pc = "awb_wait_code"
  /\ ~IsNull(attempts[call[p].attempt].outcome)
  /\ Val(attempts[call[p].attempt].outcome)[1] = "resolve"

\* C14 as stated: only the listener decides the interactive flow.  While the
\* listener is pending a failed browser launch does not end the call, and
\* once the listener has resolved with a code the call can go on to the token
\* exchange, whether the browser-launch task has succeeded, failed or not yet
\* completed.
C14_ListenerAloneDecides ==
  \A p \in Procs :
    /\ (call[p].pc = "awb_wait_code" /\ IsNull(attempts[call[p].attempt].outcome))
         => ~ENABLED AwbListenerRejected(p)
    /\ ListenerResolvedFor(p) => ENABLED AwbCodeReceived(p)

\* C15: in every interactive attempt the exchange request carries the
\* verifier generated for that attempt (whose challenge the attempt put in its
\* authorization URL), not the challenge and not the verifier of any other
\* attempt, and the code is the one the attempt's listener resolved with.
C15_VerifierOfSameAttempt ==
  [][\A p \in Procs :
       (call[p].pc = "awb_wait_code" /\ call'[p].pc = "exchange_wait") =>
         LET i == call[p].attempt
             a == attempts[i]
             r == Val(call'[p].inflight)
         IN  /\ r.grant_type = "authorization_code"
             /\ r.code_verifier = a.codeVerifier
             /\ a.codeChallenge = Challenge(r.code_verifier)
             /\ r.code_verifier # a.codeChallenge
             /\ \A j \in 1..Len(attempts) : j # i => r.code_verifier # attempts[j].codeVerifier
             /\ ListenerResolvedFor(p)
             /\ r.code = Val(a.outcome)[2]]_vars

\* C15 witness: the exchange of a second attempt is in flight with that
\* attempt's verifier and the code its listener received.
C15_Witness ==
  /\ Len(attempts) = 2
  /\ Main.pc = "exchange_wait" /\ Main.attempt = 2
  /\ Val(Main.inflight).code_verifier = Verifier(2)
  /\ Val(Main.inflight).code = "CODE2"

\* An API wrapper is entered by p: ensureAuthenticated runs in this step.
ApiCalled(p) == call[p].pc = "idle" /\ call'[p] # call[p] /\ call'[p].op = "api"

\* C16 as stated: an API call on a client without in-memory token, while the
\* store holds a record that is not expired, adopts the stored record and the
\* request goes out with it; no token request is sent and no interactive
\* login starts.
C16_ApiAdoptsStoredToken ==
  [][\A p \in Procs :
       (ApiCalled(p) /\ IsNull(token) /\ StoredUsable(store, now)) =>
         /\ ~IsNull(token') /\ AuthFields(Val(token')) = AuthFields(Val(store))
         /\ call'[p].pc = "api_get_wait"
         /\ call'[p].apiAuth = Bearer(Val(store).access_token)
         /\ IsNull(call'[p].inflight)
         /\ attempts' = attempts]_vars

\* authenticateWithBrowser of p has loaded an expired record that holds a
\* refresh token and takes its next step.
AwbStoredExpiredStep(p) ==
  /\ call[p].op = "authenticateWithBrowser" /\ call[p].pc = "awb_loaded"
  /\ HasRefreshToken(call[p].storedToken)
  /\ ~StoredUsable(call[p].storedToken, now)
  /\ call'[p] # call[p]

\* C17 as stated: for a client configured without clientSecret, an
\* authenticateWithBrowser call that finds the stored token expired (a record
\* with a refresh token, stored by an earlier authenticateWithBrowser) renews
\* it through the refresh grant: its next step sends the refresh request; it
\* does not turn to deleting the record and to the browser login.
C17_RefreshWithoutSecret ==
  [][\A p \in Procs :
       (AwbStoredExpiredStep(p) /\ ~config.clientSecret) =>
         /\ call'[p].pc = "refresh_wait"
         /\ call'[p].inflight = Some(RefreshRequest(call[p].storedToken))]_vars

\* The client still holds the token its constructor was given.
HoldsPresetToken ==
  /\ config.accessToken
  /\ token = Some(PresetToken(config))
  /\ authHeader = Bearer(PresetToken(config).access_token)

\* C18 as stated: for a client constructed with a pre-supplied access token
\* (and still holding it), at whatever time an API call is made,
\* ensureAuthenticated sends no refresh and no password request and the API
\* request goes out with Bearer <the pre-supplied token>.
C18_PresetNeverRefreshed ==
  [][\A p \in Procs :
       (ApiCalled(p) /\ HoldsPresetToken) =>
         /\ call'[p].pc = "api_get_wait"
         /\ call'[p].apiAuth = Bearer(PresetToken(config).access_token)
         /\ IsNull(call'[p].inflight)]_vars

\* Milliseconds of validity a record has left at the current instant.
RemainingMs(t) == 1000 * t.created_at + t.expires_in * 1000 - 1000 * now

\* C19: TokenStorage.isTokenExpired(record) is true exactly when
\* now >= created_at + expires_in*1000 - 300000, and true when exactly
\* 300000 ms remain: for every record the store holds or a call has loaded,
\* at every instant; and authenticateWithBrowser adopts a loaded record
\* exactly when more than 300000 ms remain.
C19_StoreExpiryPredicate ==
  /\ [](\A r \in {store} \cup {call[p].storedToken : p \in Procs} :
          ~IsNull(r) =>
            /\ StoreIsTokenExpired(Val(r), now) <=> (RemainingMs(Val(r)) <= 300000)
            /\ RemainingMs(Val(r)) = 300000 => StoreIsTokenExpired(Val(r), now))
  /\ [][\A p \in Procs :
         (call[p].pc = "awb_loaded" /\ ~IsNull(call[p].storedToken) /\ call'[p] # call[p]) =>
           ((RemainingMs(Val(call[p].storedToken)) > 300000)
              <=> (call'[p].pc = "idle" /\ call'[p].result = "ok"
                     /\ token' = call[p].storedToken))]_vars

\* C19 witness: a record with exactly 300000 ms left was loaded at a later
\* instant than its creation and was not adopted.
C19_Witness ==
  /\ Main.op = "authenticateWithBrowser" /\ Main.pc \in {"refresh_wait", "awb_delete"}
  /\ ~IsNull(Main.storedToken)
  /\ RemainingMs(Val(Main.storedToken)) = 300000
  /\ now > Val(Main.storedToken).created_at

\* The store holds the record of the client's current token.
Mirrored ==
  /\ ~IsNull(token) /\ ~IsNull(store)
  /\ AuthFields(Val(store)) = AuthFields(Val(token))

\* C20 as stated: at every instant at which the store mirrors the client's
\* current token, the in-memory expiry check and the store predicate
\* evaluated on the stored record give the same answer.
C20_ExpiryChecksAgree ==
  Mirrored =>
    (ClientIsTokenExpired(tokenExpiry, now) <=> StoreIsTokenExpired(Val(store), now))

\* Records of one-hour tokens the store holds or a call has loaded.
HourRecords ==
  {Val(r) : r \in {x \in {store} \cup {call[p].storedToken : p \in Procs} :
                     ~IsNull(x) /\ Val(x).expires_in = 60 * 60}}

\* C21 as stated: after an interactive flow whose exchange returned
\* expires_in = 3600, isExpired on the stored record is false 1 hour minus
\* 1 minute after the exchange and true 1 hour minus 4 minutes after it.
C21_FalseAtMinusOneMinute ==
  \A r \in HourRecords :
    /\ now = r.created_at + 59 * 60 => ~StoreIsTokenExpired(r, now)
    /\ now = r.created_at + 56 * 60 => StoreIsTokenExpired(r, now)

\* C21 amended: isExpired on that record is true both 1 hour minus 1 minute
\* and 1 hour minus 4 minutes after the exchange, and false 1 hour minus
\* 6 minutes after it; authenticateWithBrowser called at those instants adopts
\* the stored record only in the last case.
C21_TrueFromMinusFiveMinutes ==
  /\ [](\A r \in HourRecords :
          /\ now = r.created_at + 59 * 60 => StoreIsTokenExpired(r, now)
          /\ now = r.created_at + 56 * 60 => StoreIsTokenExpired(r, now)
          /\ now = r.created_at + 54 * 60 => ~StoreIsTokenExpired(r, now))
  /\ [][\A p \in Procs :
         (/\ call[p].pc = "awb_loaded" /\ call[p].storedToken # Null
          /\ Val(call[p].storedToken) \in HourRecords
          /\ call'[p] # call[p])
         => LET r == Val(call[p].storedToken)
                adopted == call'[p].pc = "idle" /\ call'[p].result = "ok"
                             /\ token' = call[p].storedToken
            IN  /\ now \in {r.created_at + 59 * 60, r.created_at + 56 * 60} => ~adopted
                /\ now = r.created_at + 54 * 60 => adopted]_vars

\* C21 witness: 59 minutes after the exchange authenticateWithBrowser has
\* loaded the one-hour record and, finding it expired, asked for a refresh.
C21_Witness ==
  /\ Main.op = "authenticateWithBrowser" /\ Main.pc = "refresh_wait"
  /\ Main.storedToken # Null
  /\ Val(Main.storedToken).expires_in = 60 * 60
  /\ Val(Main.storedToken).access_token[2] = "issued"
  /\ now = Val(Main.storedToken).created_at + 59 * 60

\* The other caller.
Other(p) == CHOOSE q \in Procs : q # p

\* A caller's loadToken returns while nobody else is using the file, the
\* caller's previous storage call having been saveToken(t).
LoadsAfterOwnSave(p) ==
  /\ LoadRead(p)
  /\ ~IsNull(call[p].arg)
  /\ call[Other(p)].op = "none"

\* C22: save-then-load is a round trip: a load that follows save(record)
\* returns a record equal to the saved one field for field; a created_at the
\* record carries is preserved, and only a record without one is stamped
\* with the save time.
C22_SaveLoadRoundTrip ==
  [][\A p \in Procs :
       LoadsAfterOwnSave(p) =>
         LET t == Val(call[p].arg)
         IN  /\ ~IsNull(call'[p].loaded)
             /\ AuthFields(Val(call'[p].loaded)) = AuthFields(t)
             /\ "created_at" \in DOMAIN t => Val(call'[p].loaded) = t]_vars

\* The file content before the save caller q has in progress.
BeforeSave(q) == IF call[q].pc = "save_write" THEN call[q].replaced ELSE store

\* A caller's loadToken returns while the other caller's saveToken is in
\* progress, the file having held a full record or nothing before that save.
LoadsDuringSave(p) ==
  /\ LoadRead(p)
  /\ call[Other(p)].pc \in {"save_open", "save_write"}
  /\ IsNull(BeforeSave(Other(p))) \/ WellFormed(Val(BeforeSave(Other(p))))

\* C23: saveToken is atomic for its callers: a loadToken that runs while a
\* saveToken is in progress returns, in full, the record stored before that
\* save or the record being saved, never a partially written one.
C23_SaveIsAtomic ==
  [][\A p \in Procs :
       LoadsDuringSave(p) =>
         call'[p].loaded \in {BeforeSave(Other(p)), call[Other(p)].pendingWrite}]_vars

\* C24: loadToken never fails, returns the stored record when a well-formed
\* record is stored, and returns null when there is no file or the content is
\* not a well-formed record (unparseable, or parseable with fields missing).
C24_CorruptIsAbsent ==
  [][\A p \in Procs :
       LoadRead(p) =>
         call'[p].loaded =
           IF ~IsNull(store) /\ WellFormed(Val(store)) THEN store ELSE Null]_vars

\* refreshToken() is entered: called directly, or by ensureAuthenticated for
\* a token that is soon-expired.
RefreshEntered(p) ==
  \/ StartRefreshToken(p)
  \/ StartApi(p) /\ ~IsNull(token) /\ ClientIsTokenExpired(tokenExpiry, now)

\* authenticate() is entered: called directly, or by ensureAuthenticated when
\* no token is held.
AuthenticateEntered(p) ==
  \/ StartAuthenticate(p)
  \/ StartApi(p) /\ IsNull(token)

\* The call of p ended in this step with failure err, without a token request
\* and without touching token, expiry, header or store.
FailsFast(p, err) ==
  /\ call'[p].pc = "idle" /\ call'[p].result = err /\ IsNull(call'[p].inflight)
  /\ UNCHANGED <<token, tokenExpiry, authHeader, store, issued>>

\* C25 as stated: refreshToken without a configured client secret always
\* fails with the missing-client-secret failure, and authenticate with user
\* credentials or client secret missing with the missing-credentials failure,
\* both before any request and leaving token, expiry, header and store alone.
C25_SecretMissingAlwaysReported ==
  [][\A p \in Procs :
       /\ (RefreshEntered(p) /\ ~config.clientSecret) => FailsFast(p, ErrNoClientSecret)
       /\ (AuthenticateEntered(p) /\ (~config.userpass \/ ~config.clientSecret))
            => FailsFast(p, ErrMissingCredentials)]_vars

\* C25, amended: refreshToken fails fast with the no-refresh-token failure
\* when the token in memory has no refresh token, and with the
\* missing-client-secret failure when it has one and no client secret is
\* configured; authenticate fails fast with the missing-credentials failure
\* when user credentials or client secret are missing.
C25_CredentialsCheckedFirst ==
  [][\A p \in Procs :
       /\ (RefreshEntered(p) /\ ~HasRefreshToken(token)) => FailsFast(p, ErrNoRefreshToken)
       /\ (RefreshEntered(p) /\ HasRefreshToken(token) /\ ~config.clientSecret)
            => FailsFast(p, ErrNoClientSecret)
       /\ (AuthenticateEntered(p) /\ (~config.userpass \/ ~config.clientSecret))
            => FailsFast(p, ErrMissingCredentials)]_vars

\* A direct refreshToken() of a client that holds a refresh token and has no
\* client secret has failed.
C25_Witness ==
  /\ Main.op = "refreshToken" /\ Main.pc = "idle" /\ Main.result = ErrNoClientSecret
  /\ HasRefreshToken(token) /\ ~config.clientSecret

\* C26: when the token endpoint rejects a code exchange or a refresh, the
\* failure raised to the caller is of the matching kind and carries the
\* provider's status code and response body: the status and body of the
\* rejection can be read off the failure, so no two rejections that differ in
\* status or body give the same failure.
C26_FailureCarriesStatusAndBody ==
  [][\A p \in Procs : \A e1, e2 \in HttpRejections :
       /\ (/\ ExchangeRejected(p)
           /\ call'[p].result = ErrExchangeFailed(e1)
           /\ call'[p].result = ErrExchangeFailed(e2)) => e1.response = e2.response
       /\ (/\ RefreshRejected(p) /\ call'[p].pc = "idle"
           /\ call'[p].result = ErrRefreshFailed(e1)
           /\ call'[p].result = ErrRefreshFailed(e2)) => e1.response = e2.response]_vars

\* RFC 7636 unreserved characters: letters, digits, "-", ".", "_", "~".
UrlSafe == {Base64UrlAlphabet[i] : i \in 1..Len(Base64UrlAlphabet)} \cup {".", "~"}

\* C27: for every pair generatePKCE returns, the challenge is the
\* base64url-without-padding encoding of SHA-256(verifier), and the verifier
\* has 43 to 128 characters, all of the URL-safe alphabet, without padding.
C27_PkcePairWellFormed ==
  \A i \in 1..Len(attempts) :
    LET pair == attempts[i]
    IN  /\ pair.codeChallenge = Sha256Base64Url(pair.codeVerifier)
        /\ Len(pair.codeVerifier) \in 43..128
        /\ \A k \in 1..Len(pair.codeVerifier) : pair.codeVerifier[k] \in UrlSafe

\* Two pairs were generated, one of them from bytes whose encoding uses the
\* last two characters of the alphabet.
C27_Witness ==
  /\ Len(attempts) = MaxPairs
  /\ \E i \in 1..Len(attempts) :
       \E k, l \in 1..Len(attempts[i].codeVerifier) :
            attempts[i].codeVerifier[k] = "-" /\ attempts[i].codeVerifier[l] = "_"

\* C28: a listener resolves with code c only on a request to "/" that has no
\* error parameter, carries code c and carries a state equal to the expected
\* state; a request with a code and no state is never accepted.
C28_ResolvesOnlyOnMatchingState ==
  \A i \in Listening : \A req \in Requests : \A c \in Codes :
    HandleRequest(attempts[i], req).outcome = Some(<<"resolve", c>>)
      => /\ req.path = "/" /\ IsNull(req.error)
         /\ req.code = Some(c)
         /\ req.state = Some(attempts[i].expectedState)

\* A listener has resolved with the second code and its caller has not yet
\* taken the result.
C28_Witness ==
  \E i \in 1..Len(attempts) :
    /\ attempts[i].outcome = Some(<<"resolve", "CODE2">>)
    /\ \E p \in Procs : call[p].pc = "awb_wait_code" /\ call[p].attempt = i

\* C29: whenever no operation is in flight and the client holds a token, the
\* Authorization header is "Bearer " followed by that token's access_token.
C29_HeaderFollowsToken ==
  (Quiescent /\ ~IsNull(token)) => authHeader = Bearer(Val(token).access_token)

\* Both callers have completed an API call in which refreshToken() adopted
\* a response, and nothing is in flight.
BothRefreshed ==
  /\ Quiescent
  /\ \A p \in Procs : call[p].op = "api" /\ call[p].result = "ok" /\ ~IsNull(call[p].refreshed)

\* C30: after two concurrent API calls that both refreshed a soon-expired
\* token have completed, the token in memory, the Authorization header and
\* the stored record hold the token of one and the same refresh response.
C30_ConcurrentRefreshAgrees ==
  BothRefreshed =>
    \E p \in Procs :
      LET resp == Val(call[p].refreshed)
      IN  /\ token = Some(resp)
          /\ authHeader = Bearer(resp.access_token)
          /\ ~IsNull(store) /\ AuthFields(Val(store)) = resp

====
